---- MODULE Spec2Model ----
(***************************************************************************)
(* Model of src/app.py: the Streamlit voice-agent front end.               *)
(*                                                                         *)
(* Shared, process-wide resources (st.cache_resource): msg_queue,          *)
(* stop_flag and conv_data.  An observer is one Streamlit session running  *)
(* the script top to bottom on every rerun; a worker is one                *)
(* run_conversation thread.  A step is one read or write of a shared       *)
(* resource together with the thread-local statements around it, so that   *)
(* the worker and the script interleave as the threads do.                 *)
(***************************************************************************)
EXTENDS Integers, Sequences, FiniteSets, TLC

\* ---- bounds of the model ----
MaxWorkers == 2      \* threads that Start may spawn in one behaviour
MaxIrregular == 1    \* irregular events in one behaviour: an SDK call that
                     \* raises, an SDK callback, a join that times out, a Clear

\* ---- program constants ----
PollDelayMs == 500   \* time.sleep(0.5) before st.rerun()

NoRerun == 0         \* no sleep and no st.rerun(): the script run just ends

Workers == 1..MaxWorkers
None == 0            \* Python None for conv_data['thread'] / ['conversation']

Buttons == {"Start", "Stop", "Refresh", "Clear"}

VARIABLES
    conv_data,       \* the cached dict: thread, conversation, is_running
    stop_flag,       \* threading.Event: TRUE when set
    msg_queue,       \* queue.Queue contents, head first
    wpc,             \* wpc[w]: position of worker thread w in run_conversation
    wlog,            \* wlog[w]: history of the messages w's body has put
    fault,           \* fault[w]: stage of worker w at which an SDK call raised, or "none"
    wput,            \* wput[w]: history, number of puts by w and its callbacks
    ncb,             \* SDK callback invocations so far
    nclears,         \* history: number of times Clear has been used
    ntimeouts,       \* history: number of joins that have timed out
    opc,             \* opc[o]: position of observer o in the script
    button,          \* button[o]: the button whose click caused this run, or "none"
    rendered,        \* rendered[o]: running state the buttons were drawn with
    messages,        \* st.session_state.messages of observer o
    ui_is_running,   \* st.session_state.ui_is_running of observer o
    new_messages,    \* local list of process_queue_messages
    thread,          \* local variable thread of the Start handler
    jt,              \* thread object the Stop handler is joining
    delay            \* milliseconds of the sleep in progress, if any

wvars == <<wpc, wlog, fault, wput>>
ovars == <<opc, button, rendered, messages, ui_is_running,
           new_messages, thread, jt, delay>>
vars == <<conv_data, stop_flag, msg_queue, wpc, wlog, fault, wput,
          ncb, nclears, ntimeouts, opc, button, rendered, messages,
          ui_is_running, new_messages, thread, jt, delay>>

Observers == DOMAIN opc

\* A (role, message) tuple.  id is the conversation id in the text of the
\* 'ended' message (0 elsewhere); w and k are history: the message is the
\* k-th one put by worker w or by the callbacks of its session.
Msg(role, text, id, w) ==
    [role |-> role, text |-> text, id |-> id, w |-> w, k |-> wput[w] + 1]

\* threading.Thread.is_alive(): started and not yet returned
Alive(w) == wpc[w] \notin {"new", "dead"}

AliveWorkers == {w \in Workers : Alive(w)}

\* msg_queue.put((role, message)) by the body of worker w
Put(w, role, text, id) ==
    /\ msg_queue' = Append(msg_queue, Msg(role, text, id, w))
    /\ wput' = [wput EXCEPT ![w] = @ + 1]
    /\ wlog' = [wlog EXCEPT ![w] = Append(@, <<role, text>>)]

Goto(w, l) == wpc' = [wpc EXCEPT ![w] = l]

\* The irregular events so far, and whether the behaviour may have another.
Irregular ==
    Cardinality({w \in Workers : fault[w] # "none"}) + ncb + nclears + ntimeouts

MayFault == Irregular < MaxIrregular

\* ------------------------------------------------------------------------
\* run_conversation: the worker thread
\* ------------------------------------------------------------------------

\* elevenlabs = ElevenLabs(api_key=api_key);
\* conversation = Conversation(elevenlabs, agent_id, ...);
\* conv_data['conversation'] = conversation
\* Either constructor may raise, and control passes to the except clause.
WConstruct(w) ==
    /\ wpc[w] = "construct"
    /\ \E r \in {"ok", "ElevenLabs", "Conversation"} :
         /\ r # "ok" => MayFault
         /\ IF r = "ok"
           THEN /\ conv_data' = [conv_data EXCEPT !.conversation = w]
                /\ Goto(w, "put_starting")
                /\ fault' = fault
           ELSE /\ conv_data' = conv_data
                /\ Goto(w, "except")
                /\ fault' = [fault EXCEPT ![w] = "constructor"]
    /\ UNCHANGED <<stop_flag, msg_queue, wlog, wput, ncb, nclears, ntimeouts>>
    /\ UNCHANGED ovars

\* msg_queue.put(("System", " **Starting conversation...**"))
WPutStarting(w) ==
    /\ wpc[w] = "put_starting"
    /\ Put(w, "System", "starting", 0)
    /\ Goto(w, "start_session")
    /\ UNCHANGED <<conv_data, stop_flag, fault, ncb, nclears, ntimeouts>>
    /\ UNCHANGED ovars

\* conversation.start_session(), which blocks until connected or raises;
\* msg_queue.put(("System", "**Conversation active!**"))
WStartSession(w) ==
    /\ wpc[w] = "start_session"
    /\ \E ok \in BOOLEAN :
         /\ ~ok => MayFault
         /\ IF ok
           THEN /\ Put(w, "System", "active", 0)
                /\ Goto(w, "wait")
                /\ fault' = fault
           ELSE /\ UNCHANGED <<msg_queue, wput, wlog>>
                /\ Goto(w, "except")
                /\ fault' = [fault EXCEPT ![w] = "start_session"]
    /\ UNCHANGED <<conv_data, stop_flag, ncb, nclears, ntimeouts>>
    /\ UNCHANGED ovars

\* while not stop_flag.is_set(): time.sleep(0.1)
WWaitLoop(w) ==
    /\ wpc[w] = "wait"
    /\ Goto(w, IF stop_flag THEN "put_ending" ELSE "wait")
    /\ UNCHANGED <<conv_data, stop_flag, msg_queue, wlog, fault, wput, ncb, nclears, ntimeouts>>
    /\ UNCHANGED ovars

\* msg_queue.put(("System", "**Ending conversation...**"))
WPutEnding(w) ==
    /\ wpc[w] = "put_ending"
    /\ Put(w, "System", "ending", 0)
    /\ Goto(w, "end_session")
    /\ UNCHANGED <<conv_data, stop_flag, fault, ncb, nclears, ntimeouts>>
    /\ UNCHANGED ovars

\* conversation.end_session();
\* conv_id = conversation.wait_for_session_end(), which blocks;
\* msg_queue.put(("System", f"**Conversation ended successfully!** (ID: {conv_id})"))
\* Either call may raise.  The identifier returned is that of the session.
WEndSession(w) ==
    /\ wpc[w] = "end_session"
    /\ \E r \in {"ok", "end_session", "wait_for_session_end"} :
         /\ r # "ok" => MayFault
         /\ IF r = "ok"
           THEN /\ Put(w, "System", "ended", w)
                /\ Goto(w, "fin_conv")
                /\ fault' = fault
           ELSE /\ UNCHANGED <<msg_queue, wput, wlog>>
                /\ Goto(w, "except")
                /\ fault' = [fault EXCEPT ![w] = "end_session"]
    /\ UNCHANGED <<conv_data, stop_flag, ncb, nclears, ntimeouts>>
    /\ UNCHANGED ovars

\* An except clause that swallows the fault without reporting it
WExcept_Silent(w) ==
    /\ wpc[w] = "except"
    /\ Goto(w, "fin_conv")
    /\ UNCHANGED <<conv_data, stop_flag, msg_queue, wlog, fault, wput, ncb,
                   nclears, ntimeouts>>
    /\ UNCHANGED ovars

\* An except clause after which the thread ends without the finally block
WExcept_NoFinally(w) ==
    /\ wpc[w] = "except"
    /\ Put(w, "Error", fault[w], 0)
    /\ Goto(w, "dead")
    /\ UNCHANGED <<conv_data, stop_flag, fault, ncb, nclears, ntimeouts>>
    /\ UNCHANGED ovars

\* except Exception as e: msg_queue.put(("Error", f"**Conversation Error:** {str(e)}"))
WExcept(w) ==
    /\ wpc[w] = "except"
    /\ Put(w, "Error", fault[w], 0)
    /\ Goto(w, "fin_conv")
    /\ UNCHANGED <<conv_data, stop_flag, fault, ncb, nclears, ntimeouts>>
    /\ UNCHANGED ovars

\* finally: conv_data['conversation'] = None
WFinallyConversation(w) ==
    /\ wpc[w] = "fin_conv"
    /\ conv_data' = [conv_data EXCEPT !.conversation = None]
    /\ Goto(w, "fin_running")
    /\ UNCHANGED <<stop_flag, msg_queue, wlog, fault, wput, ncb, nclears, ntimeouts>>
    /\ UNCHANGED ovars

\* A finally block that leaves conv_data['is_running'] as it is
WFinallyRunning_Skip(w) ==
    /\ wpc[w] = "fin_running"
    /\ Goto(w, "fin_thread")
    /\ UNCHANGED <<conv_data, stop_flag, msg_queue, wlog, fault, wput, ncb,
                   nclears, ntimeouts>>
    /\ UNCHANGED ovars

\* finally: conv_data['is_running'] = False
WFinallyRunning(w) ==
    /\ wpc[w] = "fin_running"
    /\ conv_data' = [conv_data EXCEPT !.is_running = FALSE]
    /\ Goto(w, "fin_thread")
    /\ UNCHANGED <<stop_flag, msg_queue, wlog, fault, wput, ncb, nclears, ntimeouts>>
    /\ UNCHANGED ovars

\* A finally block that returns without resetting conv_data['thread']
WFinallyThread_Keep(w) ==
    /\ wpc[w] = "fin_thread"
    /\ Goto(w, "dead")
    /\ UNCHANGED <<conv_data, stop_flag, msg_queue, wlog, fault, wput, ncb,
                   nclears, ntimeouts>>
    /\ UNCHANGED ovars

\* finally: conv_data['thread'] = None; the thread then returns
WFinallyThread(w) ==
    /\ wpc[w] = "fin_thread"
    /\ conv_data' = [conv_data EXCEPT !.thread = None]
    /\ Goto(w, "dead")
    /\ UNCHANGED <<stop_flag, msg_queue, wlog, fault, wput, ncb, nclears, ntimeouts>>
    /\ UNCHANGED ovars

\* Positions of the worker at which the SDK session is started and not yet
\* closed, so that the SDK's own threads may invoke the callbacks.
SessionOpen == {"wait", "put_ending", "end_session"}

\* on_user, on_response, on_correction: invoked by the SDK of worker w
Callback(w) ==
    /\ wpc[w] \in SessionOpen
    /\ Irregular < MaxIrregular
    /\ \E m \in {<<"User", "text">>, <<"Agent", "resp">>, <<"Agent", "corrected">>} :
         msg_queue' = Append(msg_queue, Msg(m[1], m[2], 0, w))
    /\ wput' = [wput EXCEPT ![w] = @ + 1]
    /\ ncb' = ncb + 1
    /\ UNCHANGED <<conv_data, stop_flag, wpc, wlog, fault, nclears, ntimeouts>>
    /\ UNCHANGED ovars

WorkerStep(w) ==
    \/ WConstruct(w)
    \/ WPutStarting(w)
    \/ WStartSession(w)
    \/ WWaitLoop(w)
    \/ WPutEnding(w)
    \/ WEndSession(w)
    \/ WExcept(w)
    \/ WFinallyConversation(w)
    \/ WFinallyRunning(w)
    \/ WFinallyThread(w)

\* ------------------------------------------------------------------------
\* The script: one observer's run from the top to st.rerun() or to its end
\* ------------------------------------------------------------------------

OGoto(o, l) ==
    /\ opc' = [opc EXCEPT ![o] = l]
    /\ button' = button

\* st.rerun(): the run stops and the script starts again from the top, with
\* no button returning True unless a click arrives.
Rerun(o) ==
    /\ opc' = [opc EXCEPT ![o] = "sync"]
    /\ button' = [button EXCEPT ![o] = "none"]

\* An exception that escapes the script ends the run; nothing is scheduled.
Crash(o) ==
    /\ opc' = [opc EXCEPT ![o] = "idle"]
    /\ button' = [button EXCEPT ![o] = "none"]

\* Starts that were clicked and have not yet reached thread.start()
StartsInFlight ==
    Cardinality({o \in Observers :
                   /\ button[o] = "Start"
                   /\ opc[o] \in {"sync", "start_check", "start_clear",
                                  "start_set", "start_spawn"}})

NewWorkers == {w \in Workers : wpc[w] = "new"}

\* The user clicks button b of observer o, as the page shows it: Start is
\* disabled when it was drawn with ui_is_running True, Stop when False (a
\* click made on the page as last drawn still makes st.button return True in
\* the run it starts, whatever that run passes as disabled).  The
\* click starts a run of the script in which b returns True; it can arrive
\* when the script has ended, during the sleep before st.rerun(), or after
\* an st.rerun() before the new run has drawn the buttons again.
Click(o, b) ==
    /\ opc[o] \in {"idle", "sleep", "sync"}
    /\ button[o] = "none"
    /\ rendered[o] # "none"
    /\ b = "Start" => rendered[o] = "ready" /\ Cardinality(NewWorkers) > StartsInFlight
    /\ b = "Stop" => rendered[o] = "running"
    /\ b = "Clear" => Irregular < MaxIrregular
    /\ opc' = [opc EXCEPT ![o] = "sync"]
    /\ button' = [button EXCEPT ![o] = b]
    /\ delay' = [delay EXCEPT ![o] = NoRerun]
    /\ UNCHANGED <<conv_data, stop_flag, msg_queue, ncb, nclears, ntimeouts,
                   rendered, messages, ui_is_running, new_messages,
                   thread, jt>>
    /\ UNCHANGED wvars

\* The first statement of a handler, by the button that returned True.
Dispatch(b) ==
    CASE b = "Start" -> "start_check"
      [] b = "Stop" -> "stop_check"
      [] b = "Refresh" -> "refresh"
      [] b = "Clear" -> "clear_msgs"
      [] OTHER -> "pq_loop"

\* if conv_data['is_running'] != st.session_state.ui_is_running: ... ; then
\* the four buttons are drawn, Start and Stop disabled by ui_is_running.
Sync(o) ==
    /\ opc[o] = "sync"
    /\ ui_is_running' = [ui_is_running EXCEPT ![o] = conv_data.is_running]
    /\ rendered' = [rendered EXCEPT ![o] =
                      IF conv_data.is_running THEN "running" ELSE "ready"]
    /\ jt' = [jt EXCEPT ![o] = None]
    /\ OGoto(o, Dispatch(button[o]))
    /\ UNCHANGED <<conv_data, stop_flag, msg_queue, ncb, nclears, ntimeouts,
                   messages, new_messages, thread, delay>>
    /\ UNCHANGED wvars

\* Start without its guard: the handler body runs whatever is_running is.
StartCheck_NoGuard(o) ==
    /\ opc[o] = "start_check"
    /\ OGoto(o, "start_clear")
    /\ UNCHANGED <<conv_data, stop_flag, msg_queue, ncb, nclears, ntimeouts,
                   rendered, messages, ui_is_running, new_messages, thread, jt,
                   delay>>
    /\ UNCHANGED wvars

\* Start: if not conv_data['is_running']:
StartCheck(o) ==
    /\ opc[o] = "start_check"
    /\ IF conv_data.is_running
         THEN /\ OGoto(o, "pq_loop")
         ELSE /\ OGoto(o, "start_clear")
    /\ UNCHANGED <<conv_data, stop_flag, msg_queue, ncb, nclears, ntimeouts,
                   rendered, messages, ui_is_running, new_messages, thread, jt,
                   delay>>
    /\ UNCHANGED wvars

\* A Start that leaves the stop flag as the last session left it
StartClearFlag_Skip(o) ==
    /\ opc[o] = "start_clear"
    /\ OGoto(o, "start_set")
    /\ UNCHANGED <<conv_data, stop_flag, msg_queue, ncb, nclears, ntimeouts,
                   rendered, messages, ui_is_running, new_messages, thread, jt,
                   delay>>
    /\ UNCHANGED wvars

\* Start: stop_flag.clear()
StartClearFlag(o) ==
    /\ opc[o] = "start_clear"
    /\ stop_flag' = FALSE
    /\ OGoto(o, "start_set")
    /\ UNCHANGED <<conv_data, msg_queue, ncb, nclears, ntimeouts, rendered,
                   messages, ui_is_running, new_messages, thread, jt, delay>>
    /\ UNCHANGED wvars

\* Start: conv_data['is_running'] = True; st.session_state.ui_is_running = True
StartSetRunning(o) ==
    /\ opc[o] = "start_set"
    /\ conv_data' = [conv_data EXCEPT !.is_running = TRUE]
    /\ ui_is_running' = [ui_is_running EXCEPT ![o] = TRUE]
    /\ OGoto(o, "start_spawn")
    /\ UNCHANGED <<stop_flag, msg_queue, ncb, nclears, ntimeouts, rendered,
                   messages, new_messages, thread, jt, delay>>
    /\ UNCHANGED wvars

\* The thread object a Start creates: the next one not yet started.
NextWorker == CHOOSE w \in NewWorkers : \A v \in NewWorkers : w <= v

\* Start: thread = threading.Thread(target=run_conversation, daemon=True);
\* thread.start()
StartSpawn(o) ==
    /\ opc[o] = "start_spawn"
    /\ NewWorkers # {}
    /\ thread' = [thread EXCEPT ![o] = NextWorker]
    /\ wpc' = [wpc EXCEPT ![NextWorker] = "construct"]
    /\ OGoto(o, "start_assign")
    /\ UNCHANGED <<conv_data, stop_flag, msg_queue, ncb, nclears, ntimeouts,
                   rendered, messages, ui_is_running, new_messages, jt, delay>>
    /\ UNCHANGED <<wlog, fault, wput>>

\* Start: conv_data['thread'] = thread; st.rerun()
StartAssign(o) ==
    /\ opc[o] = "start_assign"
    /\ conv_data' = [conv_data EXCEPT !.thread = thread[o]]
    /\ thread' = [thread EXCEPT ![o] = None]
    /\ Rerun(o)
    /\ UNCHANGED <<stop_flag, msg_queue, ncb, nclears, ntimeouts, rendered,
                   messages, ui_is_running, new_messages, jt, delay>>
    /\ UNCHANGED wvars

\* Stop without its guard: the handler body runs whatever is_running is.
StopCheck_NoGuard(o) ==
    /\ opc[o] = "stop_check"
    /\ OGoto(o, "stop_set_flag")
    /\ UNCHANGED <<conv_data, stop_flag, msg_queue, ncb, nclears, ntimeouts,
                   rendered, messages, ui_is_running, new_messages, thread, jt,
                   delay>>
    /\ UNCHANGED wvars

\* Stop: if conv_data['is_running']:
StopCheck(o) ==
    /\ opc[o] = "stop_check"
    /\ IF conv_data.is_running
         THEN /\ OGoto(o, "stop_set_flag")
         ELSE /\ OGoto(o, "pq_loop")
    /\ UNCHANGED <<conv_data, stop_flag, msg_queue, ncb, nclears, ntimeouts,
                   rendered, messages, ui_is_running, new_messages, thread, jt,
                   delay>>
    /\ UNCHANGED wvars

\* Stop: stop_flag.set()
StopSetFlag(o) ==
    /\ opc[o] = "stop_set_flag"
    /\ stop_flag' = TRUE
    /\ OGoto(o, "stop_set_running")
    /\ UNCHANGED <<conv_data, msg_queue, ncb, nclears, ntimeouts, rendered,
                   messages, ui_is_running, new_messages, thread, jt, delay>>
    /\ UNCHANGED wvars

\* Stop: conv_data['is_running'] = False; st.session_state.ui_is_running = False
StopSetRunning(o) ==
    /\ opc[o] = "stop_set_running"
    /\ conv_data' = [conv_data EXCEPT !.is_running = FALSE]
    /\ ui_is_running' = [ui_is_running EXCEPT ![o] = FALSE]
    /\ OGoto(o, "stop_thread")
    /\ UNCHANGED <<stop_flag, msg_queue, ncb, nclears, ntimeouts, rendered,
                   messages, new_messages, thread, jt, delay>>
    /\ UNCHANGED wvars

\* Stop: if conv_data['thread'] and ...   (the left operand); when it is
\* None the handler goes on to st.rerun()
StopThread(o) ==
    /\ opc[o] = "stop_thread"
    /\ IF conv_data.thread = None
         THEN /\ Rerun(o)
         ELSE /\ OGoto(o, "stop_is_alive")
    /\ UNCHANGED <<conv_data, stop_flag, msg_queue, ncb, nclears, ntimeouts,
                   rendered, messages, ui_is_running, new_messages, thread, jt,
                   delay>>
    /\ UNCHANGED wvars

\* Stop: ... and conv_data['thread'].is_alive()   (the right operand, which
\* reads conv_data['thread'] again: AttributeError when it is None by now)
StopIsAlive(o) ==
    /\ opc[o] = "stop_is_alive"
    /\ IF conv_data.thread = None
         THEN Crash(o)
         ELSE IF Alive(conv_data.thread)
                THEN /\ OGoto(o, "stop_join")
                ELSE /\ Rerun(o)
    /\ UNCHANGED <<conv_data, stop_flag, msg_queue, ncb, nclears, ntimeouts,
                   rendered, messages, ui_is_running, new_messages, thread, jt,
                   delay>>
    /\ UNCHANGED wvars

\* Stop: conv_data['thread'].join(timeout=3): the third read of
\* conv_data['thread'] and the call of join on the object read
StopJoin(o) ==
    /\ opc[o] = "stop_join"
    /\ IF conv_data.thread = None
         THEN /\ Crash(o)
              /\ jt' = jt
         ELSE /\ OGoto(o, "stop_wait")
              /\ jt' = [jt EXCEPT ![o] = conv_data.thread]
    /\ UNCHANGED <<conv_data, stop_flag, msg_queue, ncb, nclears, ntimeouts,
                   rendered, messages, ui_is_running, new_messages, thread,
                   delay>>
    /\ UNCHANGED wvars

\* join returns because the thread has ended; then st.rerun()
StopJoinReturn(o) ==
    /\ opc[o] = "stop_wait"
    /\ ~Alive(jt[o])
    /\ Rerun(o)
    /\ UNCHANGED <<conv_data, stop_flag, msg_queue, ncb, nclears, ntimeouts,
                   rendered, messages, ui_is_running, new_messages, thread, jt,
                   delay>>
    /\ UNCHANGED wvars

\* A join that, on its timeout, terminates the thread it was waiting for
StopJoinTimeout_Kill(o) ==
    /\ opc[o] = "stop_wait"
    /\ Alive(jt[o])
    /\ Irregular < MaxIrregular
    /\ ntimeouts' = ntimeouts + 1
    /\ wpc' = [wpc EXCEPT ![jt[o]] = "dead"]
    /\ Rerun(o)
    /\ UNCHANGED <<conv_data, stop_flag, msg_queue, ncb, nclears,
                   rendered, messages, ui_is_running, new_messages, thread, jt,
                   delay>>
    /\ UNCHANGED <<wlog, fault, wput>>

\* join returns because 3 seconds have passed and the thread still runs;
\* then st.rerun()
StopJoinTimeout(o) ==
    /\ opc[o] = "stop_wait"
    /\ Alive(jt[o])
    /\ Irregular < MaxIrregular
    /\ ntimeouts' = ntimeouts + 1
    /\ Rerun(o)
    /\ UNCHANGED <<conv_data, stop_flag, msg_queue, ncb, nclears,
                   rendered, messages, ui_is_running, new_messages, thread, jt,
                   delay>>
    /\ UNCHANGED wvars

\* Refresh: st.rerun()
Refresh(o) ==
    /\ opc[o] = "refresh"
    /\ Rerun(o)
    /\ UNCHANGED <<conv_data, stop_flag, msg_queue, ncb, nclears, ntimeouts,
                   rendered, messages, ui_is_running, new_messages, thread, jt,
                   delay>>
    /\ UNCHANGED wvars

\* Clear: st.session_state.messages.clear()
ClearMessages(o) ==
    /\ opc[o] = "clear_msgs"
    /\ messages' = [messages EXCEPT ![o] = <<>>]
    /\ nclears' = nclears + 1
    /\ OGoto(o, "clear_check")
    /\ UNCHANGED <<conv_data, stop_flag, msg_queue, ncb, ntimeouts, rendered,
                   ui_is_running, new_messages, thread, jt, delay>>
    /\ UNCHANGED wvars

\* A Clear that empties the transcript and leaves the queue as it is
ClearCheck_NoDrain(o) ==
    /\ opc[o] = "clear_check"
    /\ Rerun(o)
    /\ UNCHANGED <<conv_data, stop_flag, msg_queue, ncb, nclears, ntimeouts,
                   rendered, messages, ui_is_running, new_messages, thread, jt,
                   delay>>
    /\ UNCHANGED wvars

\* Clear: while not msg_queue.empty():  and, past the loop, st.rerun()
ClearCheck(o) ==
    /\ opc[o] = "clear_check"
    /\ IF msg_queue = <<>>
         THEN /\ Rerun(o)
         ELSE /\ OGoto(o, "clear_get")
    /\ UNCHANGED <<conv_data, stop_flag, msg_queue, ncb, nclears, ntimeouts,
                   rendered, messages, ui_is_running, new_messages, thread, jt,
                   delay>>
    /\ UNCHANGED wvars

\* Clear: msg_queue.get_nowait(), the item dropped; queue.Empty is not caught
ClearGet(o) ==
    /\ opc[o] = "clear_get"
    /\ IF msg_queue = <<>>
         THEN /\ Crash(o)
              /\ msg_queue' = msg_queue
         ELSE /\ OGoto(o, "clear_check")
              /\ msg_queue' = Tail(msg_queue)
    /\ UNCHANGED <<conv_data, stop_flag, ncb, nclears, ntimeouts, rendered,
                   messages, ui_is_running, new_messages, thread, jt, delay>>
    /\ UNCHANGED wvars

\* process_queue_messages collecting at the front of new_messages:
\* new_messages.insert(0, (role, message))
PqLoop_Lifo(o) ==
    /\ opc[o] = "pq_loop"
    /\ IF msg_queue = <<>>
         THEN /\ OGoto(o, "poll")
              /\ messages' = [messages EXCEPT ![o] = @ \o new_messages[o]]
              /\ new_messages' = [new_messages EXCEPT ![o] = <<>>]
              /\ msg_queue' = msg_queue
         ELSE /\ OGoto(o, "pq_loop")
              /\ new_messages' = [new_messages EXCEPT ![o] = <<Head(msg_queue)>> \o @]
              /\ msg_queue' = Tail(msg_queue)
              /\ messages' = messages
    /\ UNCHANGED <<conv_data, stop_flag, ncb, nclears, ntimeouts, rendered,
                   ui_is_running, thread, jt, delay>>
    /\ UNCHANGED wvars

\* process_queue_messages: one turn of
\*     while not msg_queue.empty():
\*         role, message = msg_queue.get_nowait()
\*         new_messages.append((role, message))
\* and, when the queue is empty (or get_nowait raised queue.Empty),
\*     if new_messages: st.session_state.messages.extend(new_messages)
PqLoop(o) ==
    /\ opc[o] = "pq_loop"
    /\ IF msg_queue = <<>>
         THEN /\ OGoto(o, "poll")
              /\ messages' = [messages EXCEPT ![o] = @ \o new_messages[o]]
              /\ new_messages' = [new_messages EXCEPT ![o] = <<>>]
              /\ msg_queue' = msg_queue
         ELSE /\ OGoto(o, "pq_loop")
              /\ new_messages' = [new_messages EXCEPT ![o] = Append(@, Head(msg_queue))]
              /\ msg_queue' = Tail(msg_queue)
              /\ messages' = messages
    /\ UNCHANGED <<conv_data, stop_flag, ncb, nclears, ntimeouts, rendered,
                   ui_is_running, thread, jt, delay>>
    /\ UNCHANGED wvars

\* A polling decision that ignores the queue
PollDelay_RunningOnly(running, qsize) ==
    IF running THEN PollDelayMs ELSE NoRerun

\* The polling decision: the milliseconds to sleep before st.rerun(), or
\* NoRerun when the script ends without scheduling a run.
PollDelay(running, qsize) ==
    IF running \/ qsize > 0 THEN PollDelayMs ELSE NoRerun

\* if st.session_state.ui_is_running or msg_queue.qsize() > 0:
\*     time.sleep(0.5)
Poll(o) ==
    /\ opc[o] = "poll"
    /\ delay' = [delay EXCEPT ![o] = PollDelay(ui_is_running[o], Len(msg_queue))]
    /\ opc' = [opc EXCEPT ![o] = IF delay'[o] = NoRerun THEN "idle" ELSE "sleep"]
    /\ button' = [button EXCEPT ![o] = "none"]
    /\ UNCHANGED <<conv_data, stop_flag, msg_queue, ncb, nclears, ntimeouts,
                   rendered, messages, ui_is_running, new_messages, thread, jt>>
    /\ UNCHANGED wvars

\* ... st.rerun() when the sleep is over
SleepRerun(o) ==
    /\ opc[o] = "sleep"
    /\ Rerun(o)
    /\ delay' = [delay EXCEPT ![o] = NoRerun]
    /\ UNCHANGED <<conv_data, stop_flag, msg_queue, ncb, nclears, ntimeouts,
                   rendered, messages, ui_is_running, new_messages, thread, jt>>
    /\ UNCHANGED wvars

ObserverStep(o) ==
    \/ Sync(o)
    \/ StartCheck(o)
    \/ StartClearFlag(o)
    \/ StartSetRunning(o)
    \/ StartSpawn(o)
    \/ StartAssign(o)
    \/ StopCheck(o)
    \/ StopSetFlag(o)
    \/ StopSetRunning(o)
    \/ StopThread(o)
    \/ StopIsAlive(o)
    \/ StopJoin(o)
    \/ StopJoinReturn(o)
    \/ StopJoinTimeout(o)
    \/ Refresh(o)
    \/ ClearMessages(o)
    \/ ClearCheck(o)
    \/ ClearGet(o)
    \/ PqLoop(o)
    \/ Poll(o)
    \/ SleepRerun(o)

\* ------------------------------------------------------------------------
\* Specifications
\* ------------------------------------------------------------------------

\* The state after the module level of the script has run once in the
\* process: the three cached resources as their factories return them, no
\* thread started, and each session of the set O about to run the script.
InitWith(O) ==
    /\ conv_data = [thread |-> None, conversation |-> None, is_running |-> FALSE]
    /\ stop_flag = FALSE
    /\ msg_queue = <<>>
    /\ wpc = [w \in Workers |-> "new"]
    /\ wlog = [w \in Workers |-> <<>>]
    /\ fault = [w \in Workers |-> "none"]
    /\ wput = [w \in Workers |-> 0]
    /\ ncb = 0
    /\ nclears = 0
    /\ ntimeouts = 0
    /\ opc = [o \in O |-> "sync"]
    /\ button = [o \in O |-> "none"]
    /\ rendered = [o \in O |-> "none"]
    /\ messages = [o \in O |-> <<>>]
    /\ ui_is_running = [o \in O |-> FALSE]
    /\ new_messages = [o \in O |-> <<>>]
    /\ thread = [o \in O |-> None]
    /\ jt = [o \in O |-> None]
    /\ delay = [o \in O |-> NoRerun]

Init == InitWith({1})

Next ==
    \/ \E w \in Workers : WorkerStep(w)
    \/ \E w \in Workers : Callback(w)
    \/ \E o \in Observers : ObserverStep(o)
    \/ \E o \in Observers, b \in Buttons : Click(o, b)

Spec == Init /\ [][Next]_vars

\* The scheduling the code relies on: every started thread keeps running
\* (each SDK call returns or raises, the wait loop polls again), and the
\* script of the session keeps running until it ends; a bounded join
\* returns.  Nothing obliges the user to click.
FairSpec ==
    /\ Spec
    /\ \A w \in Workers : WF_vars(WorkerStep(w))
    /\ WF_vars(ObserverStep(1))

\* Two sessions of the same process (two browser tabs): each runs the script
\* on its own thread with its own st.session_state, and both share the three
\* cached resources.  This specification follows the two through Start
\* only: the script's runs with the Start handler, and the workers up to
\* their wait loop or, after a fault, to their end.  Its behaviours are
\* behaviours of the program in which nobody clicks Stop, Refresh or Clear
\* and the SDK invokes no callback.
StartRun(o) ==
    \/ Sync(o)
    \/ StartCheck(o)
    \/ StartClearFlag(o)
    \/ StartSetRunning(o)
    \/ StartSpawn(o)
    \/ StartAssign(o)
    \/ PqLoop(o)
    \/ Poll(o)
    \/ SleepRerun(o)

WorkerStart(w) ==
    \/ WConstruct(w)
    \/ WPutStarting(w)
    \/ WStartSession(w)
    \/ WWaitLoop(w)
    \/ WExcept(w)
    \/ WFinallyConversation(w)
    \/ WFinallyRunning(w)
    \/ WFinallyThread(w)

Init2 == InitWith({1, 2})

Next2 ==
    \/ \E w \in Workers : WorkerStart(w)
    \/ \E o \in Observers : StartRun(o)
    \/ \E o \in Observers : Click(o, "Start")

Spec2 == Init2 /\ [][Next2]_vars

\* ------------------------------------------------------------------------
\* Properties
\* ------------------------------------------------------------------------

StartPositions ==
    {"start_check", "start_clear", "start_set", "start_spawn", "start_assign"}

Dead(w) == wpc[w] = "dead"

\* The messages of the sequence s that worker w or its callbacks put
OfWorker(s, w) == SelectSeq(s, LAMBDA m : m.w = w)

HasPut(w, role, text) == \E i \in 1..Len(wlog[w]) : wlog[w][i] = <<role, text>>

\* C1: at most one run_conversation thread is alive at any instant, also
\* after a Stop whose join timed out.
C1_SingleSession == Cardinality(AliveWorkers) <= 1

\* C2: a Start handler that finds conv_data['is_running'] True spawns no
\* thread and leaves the stop flag and conv_data as they are; the script
\* goes on to process_queue_messages.
C2_SecondStartNoop ==
    [][\A o \in Observers :
         (opc[o] = "start_check" /\ opc'[o] # "start_check" /\ conv_data.is_running)
         => /\ UNCHANGED <<stop_flag, conv_data, wpc>>
            /\ opc'[o] = "pq_loop"]_vars

\* The second Start has returned without effect while the worker of the
\* first one runs.
C2_Witness ==
    /\ button[1] = "Start"
    /\ opc[1] = "pq_loop"
    /\ conv_data.is_running
    /\ Cardinality(AliveWorkers) = 1

\* C3: a Stop handler that finds conv_data['is_running'] False does not set
\* the stop flag, joins no thread and leaves conv_data, the queue and the
\* transcript as they are.
C3_StopIdleNoop ==
    [][\A o \in Observers :
         (opc[o] = "stop_check" /\ opc'[o] # "stop_check" /\ ~conv_data.is_running)
         => /\ UNCHANGED <<stop_flag, conv_data, msg_queue, messages, jt>>
            /\ opc'[o] = "pq_loop"]_vars

\* Stop has returned without effect.
C3_Witness ==
    /\ button[1] = "Stop"
    /\ opc[1] = "pq_loop"
    /\ ~conv_data.is_running
    /\ ~stop_flag

\* C4: as long as Clear is not used, the messages of one worker appear in
\* the transcript in the order they were put, each once and none skipped:
\* the i-th of them is the i-th message that worker put.
C4_OrderPreserved ==
    nclears = 0 =>
      \A o \in Observers, w \in Workers :
        LET t == OfWorker(messages[o], w)
        IN  /\ Len(t) <= wput[w]
            /\ \A i \in 1..Len(t) : t[i].k = i

\* The transcript holds messages of a worker, a callback's among them, while
\* that worker has put more that are still on the queue.
C4_Witness ==
    /\ nclears = 0
    /\ ncb = 1
    /\ Len(messages[1]) >= 3
    /\ msg_queue # <<>>
    /\ \E i \in 1..Len(messages[1]) : messages[1][i].role # "System"

\* C5: when no worker is alive, one has finished and no Start handler is
\* under way, conv_data['thread'] and conv_data['conversation'] are None.
C5_CleanupInvariant ==
    (/\ AliveWorkers = {}
     /\ \E w \in Workers : Dead(w)
     /\ \A o \in Observers : opc[o] \notin StartPositions)
    => conv_data.thread = None /\ conv_data.conversation = None

\* What the body of a worker puts when no SDK call raises and a Stop ends it
NormalLog ==
    << <<"System", "starting">>, <<"System", "active">>,
       <<"System", "ending">>, <<"System", "ended">> >>

\* The Stop handler of observer o has just returned from its join, and the
\* thread it joined has ended without a fault.
JoinedNormally(o) ==
    /\ opc[o] = "sync"
    /\ jt[o] # None
    /\ Dead(jt[o])
    /\ fault[jt[o]] = "none"

\* C6: a worker that ends without a fault has put exactly the System
\* messages starting, active, ending, ended, in that order, the last with
\* its conversation id, and no Error message; and when the Stop that joined
\* it returns with no other worker alive, conv_data['is_running'] is False
\* and conv_data['thread'] and conv_data['conversation'] are None.
C6_NormalLifecycle ==
    /\ \A w \in Workers :
         (Dead(w) /\ fault[w] = "none") => wlog[w] = NormalLog
    /\ \A o \in Observers :
         (JoinedNormally(o) /\ AliveWorkers = {})
         => conv_data = [thread |-> None, conversation |-> None,
                         is_running |-> FALSE]

\* Start, then Stop, whose join has returned after the worker's normal end.
C6_Witness ==
    /\ JoinedNormally(1)
    /\ AliveWorkers = {}
    /\ wlog[jt[1]] = NormalLog

\* C7: a worker whose constructor raised puts one Error message and nothing
\* else, goes through the finally block to its end (the fault stays inside
\* the thread), and leaves conv_data['is_running'] False when it resets it.
C7_ConstructorFault ==
    /\ [](\A w \in Workers :
            fault[w] = "constructor"
            => \/ wpc[w] = "except" /\ wlog[w] = <<>>
               \/ /\ wpc[w] \in {"fin_conv", "fin_running", "fin_thread", "dead"}
                  /\ wlog[w] = << <<"Error", "constructor">> >>)
    /\ [][\A w \in Workers :
            (wpc[w] = "fin_running" /\ wpc'[w] # "fin_running")
            => wpc'[w] = "fin_thread" /\ ~conv_data'.is_running]_vars

\* A worker whose constructor raised has ended.
C7_Witness ==
    \E w \in Workers :
      /\ fault[w] = "constructor"
      /\ Dead(w)
      /\ ~conv_data.is_running

\* C8: once a Stop has set the stop flag, every worker alive at that moment
\* eventually puts 'ending' (or one of its SDK calls raises).
C8_StopReachesEnd ==
    \A w \in Workers :
      (opc[1] = "stop_set_running" /\ Alive(w))
      ~> (HasPut(w, "System", "ending") \/ fault[w] # "none")

\* C9: the polling decision schedules a re-run exactly when the session is
\* shown as running or the queue holds a message; otherwise the script
\* ends, and only a click runs it again.
C9_PollingDecision ==
    /\ [][\A o \in Observers :
            (opc[o] = "poll" /\ opc'[o] # "poll")
            => /\ opc'[o] \in {"sleep", "idle"}
               /\ opc'[o] = "sleep" <=> (ui_is_running[o] \/ Len(msg_queue) > 0)]_vars
    /\ [](\A o \in Observers : opc[o] = "idle" => ~ENABLED ObserverStep(o))

\* A re-run is scheduled for a session not shown as running, because of a
\* pending message.
C9_Witness ==
    /\ opc[1] = "sleep"
    /\ ~ui_is_running[1]

\* C10: the sleep before the re-run of a session that is not shown as
\* running (pending messages only) is shorter than that of a running one.
C10_FastDrain ==
    \A o \in Observers :
      (opc[o] = "sleep" /\ ~ui_is_running[o]) => delay[o] < PollDelay(TRUE, 0)

\* The most messages one worker and the callbacks of its session can put
MaxPuts == Len(NormalLog) + MaxIrregular

\* The first n messages worker w put are in the transcript of observer o
InTranscript(o, w, n) == Len(OfWorker(messages[o], w)) >= n

\* Positions of a worker whose session is starting, active or stopping: it
\* has not reached its finally block and will put at least one more message.
InSession == {"construct", "put_starting", "start_session", "wait",
              "put_ending", "end_session", "except"}

\* C11: while a worker's session is starting, active or stopping, also after
\* a Stop whose join timed out, a script run that reaches the polling
\* decision schedules a re-run; and, no Clear being used, every message a
\* worker puts is eventually in the transcript with no click needed.
C11_PollsWhileAlive ==
    /\ [][\A o \in Observers :
            (/\ opc[o] = "poll" /\ opc'[o] # "poll"
             /\ \E w \in Workers : wpc[w] \in InSession)
            => opc'[o] = "sleep"]_vars
    /\ \A w \in Workers : \A n \in 1..MaxPuts :
         (wput[w] = n /\ nclears = 0) ~> (InTranscript(1, w, n) \/ nclears > 0)

C13_RestartFresh ==
    /\ [][\A o \in Observers :
            (opc[o] = "start_check" /\ opc'[o] # "start_check" /\ ~conv_data.is_running)
            => opc'[o] = "start_clear"]_vars
    /\ [][\A o \in Observers :
            (opc[o] = "start_spawn" /\ opc'[o] # "start_spawn")
            => /\ ~stop_flag
               /\ Cardinality({w \in Workers : wpc[w] = "new" /\ wpc'[w] = "construct"}) = 1
               /\ \A w \in Workers : wpc[w] # "new" => wpc'[w] = wpc[w]]_vars
    /\ [][(~stop_flag /\ stop_flag')
          => \E o \in Observers :
               opc[o] = "stop_set_flag" /\ opc'[o] = "stop_set_running"]_vars
    /\ [][\A w \in Workers :
            (wpc[w] = "wait" /\ wpc'[w] # "wait")
            => stop_flag /\ wpc'[w] = "put_ending"]_vars

\* The first worker has ended after a Stop, which left the stop flag set; the
\* worker of the next Start is in its wait loop with the flag clear.
C13_Witness ==
    /\ Dead(1) /\ HasPut(1, "System", "ended")
    /\ wpc[2] = "wait"
    /\ ~stop_flag
    /\ conv_data.is_running

\* Positions of the script outside the four button handlers
BetweenHandlers == {"sync", "pq_loop", "poll", "sleep", "idle"}

\* Positions of a worker inside its finally block
InFinally == {"fin_conv", "fin_running", "fin_thread"}

\* C14: whenever no handler is executing (and no worker is part-way through
\* its finally block), conv_data['thread'] is not None exactly when
\* conv_data['is_running'] is True.
C14_HandleIffRunning ==
    (/\ \A o \in Observers : opc[o] \in BetweenHandlers
     /\ \A w \in Workers : wpc[w] \notin InFinally)
    => (conv_data.thread # None <=> conv_data.is_running)

\* Worker w has put its terminal message: System 'ended' or an Error
Terminal(w) ==
    \E i \in 1..Len(wlog[w]) :
      wlog[w][i] = <<"System", "ended">> \/ wlog[w][i][1] = "Error"

\* Positions at which the script reads conv_data['is_running']
ReadsRunning == {"sync", "start_check", "stop_check"}

\* C15: whenever the script reads conv_data['is_running'] as False, every
\* worker started so far has already put its terminal message.
C15_StateBehindMessages ==
    [][\A o \in Observers :
         (opc[o] \in ReadsRunning /\ opc'[o] # opc[o] /\ ~conv_data.is_running)
         => \A w \in Workers : wpc[w] # "new" => Terminal(w)]_vars

\* The order of the positions of run_conversation
WRank(l) ==
    CASE l = "new" -> 0
      [] l = "construct" -> 1
      [] l = "put_starting" -> 2
      [] l = "start_session" -> 3
      [] l = "wait" -> 4
      [] l = "put_ending" -> 5
      [] l = "end_session" -> 6
      [] l = "except" -> 7
      [] l = "fin_conv" -> 8
      [] l = "fin_running" -> 9
      [] l = "fin_thread" -> 10
      [] l = "dead" -> 11

\* The number of Error messages the body of worker w has put
Errors(w) == Cardinality({i \in 1..Len(wlog[w]) : wlog[w][i][1] = "Error"})

\* C16: on every exit route a worker runs its finally block once: it never
\* goes back to an earlier statement, a raised fault leads to the except
\* clause, the finally block is entered from the except clause or from the
\* normal end only, each of its three statements does its assignment and leads
\* to the next, and a thread ends only after the last of them.  A worker that
\* has faulted and left the except clause has put exactly one Error message,
\* and that is the last message it put.
C16_CleanupOnce ==
    /\ [][\A w \in Workers :
            wpc'[w] # wpc[w]
            => /\ WRank(wpc'[w]) > WRank(wpc[w])
               /\ wpc'[w] = "except" <=> (fault[w] = "none" /\ fault'[w] # "none")
               /\ wpc'[w] = "fin_conv" => wpc[w] \in {"end_session", "except"}
               /\ wpc[w] = "fin_conv"
                    => wpc'[w] = "fin_running" /\ conv_data'.conversation = None
               /\ wpc[w] = "fin_running"
                    => wpc'[w] = "fin_thread" /\ ~conv_data'.is_running
               /\ wpc[w] = "fin_thread"
                    => wpc'[w] = "dead" /\ conv_data'.thread = None
               /\ wpc'[w] = "dead" => wpc[w] = "fin_thread"]_vars
    /\ [](\A w \in Workers :
            fault[w] # "none"
            => IF wpc[w] = "except"
                 THEN Errors(w) = 0
                 ELSE /\ wpc[w] \in InFinally \cup {"dead"}
                      /\ Errors(w) = 1
                      /\ wlog[w][Len(wlog[w])] = <<"Error", fault[w]>>)

\* A worker whose end_session() or wait_for_session_end() raised after a Stop
\* has put its Error message last and has run its finally block to the end.
C16_Witness ==
    \E w \in Workers :
      /\ Dead(w)
      /\ fault[w] = "end_session"
      /\ wlog[w] = << <<"System", "starting">>, <<"System", "active">>,
                      <<"System", "ending">>, <<"Error", "end_session">> >>
      /\ conv_data = [thread |-> None, conversation |-> None, is_running |-> FALSE]

\* The threads that have been started
Spawned == {w \in Workers : wpc[w] # "new"}

\* C17: of two sessions whose Start handlers run concurrently, one spawns a
\* worker and the other does not: as long as no worker has faulted (so that
\* the first one is still running, nobody having clicked Stop), at most one
\* thread has been started.
C17_AtomicStart ==
    (\A w \in Workers : fault[w] = "none") => Cardinality(Spawned) <= 1

\* Positions of the Clear handler past st.session_state.messages.clear()
Draining == {"clear_check", "clear_get"}

\* The n-th message worker w put is in the sequence s
Holds(s, w, n) == \E i \in 1..Len(s) : s[i].w = w /\ s[i].k = n

\* C18: the Clear handler past its first statement has an empty transcript,
\* it returns only on finding the queue empty, and no message that had been
\* put by the time the handler was draining is in the transcript at any
\* later time.
C18_ClearDiscards ==
    /\ [](\A o \in Observers : opc[o] \in Draining => messages[o] = <<>>)
    /\ [][\A o \in Observers :
            (opc[o] \in Draining /\ opc'[o] \notin Draining)
            => /\ msg_queue = <<>> /\ msg_queue' = <<>>
               /\ messages'[o] = <<>>]_vars
    /\ \A w \in Workers : \A n \in 1..MaxPuts :
         []((opc[1] \in Draining /\ wput[w] >= n)
            => []~Holds(messages[1], w, n))

\* After a Clear the transcript shows messages again, and the first of them
\* is not the first its worker put: the earlier ones were discarded.
C18_Witness ==
    /\ nclears = 1
    /\ opc[1] \notin Draining
    /\ messages[1] # <<>>
    /\ messages[1][1].k > 1

\* C19: a statement of worker w's finally block does not reset a field of
\* conv_data that belongs to a worker started later and still alive: it
\* leaves is_running True, and leaves thread and conversation holding that
\* worker's objects.
C19_OwnCleanupOnly ==
    [][\A w \in Workers :
         (wpc[w] \in InFinally /\ wpc'[w] # wpc[w])
         => \A v \in Workers :
              (v > w /\ Alive(v))
              => /\ conv_data.is_running => conv_data'.is_running
                 /\ conv_data.thread = v => conv_data'.thread = v
                 /\ conv_data.conversation = v => conv_data'.conversation = v]_vars

\* C20: whenever conv_data['is_running'] is True, a worker thread is alive
\* or a Start handler has set the flag and is about to start its thread; and
\* a Start handler that reaches its check when no worker is alive is
\* accepted.
C20_NeverStuckOn ==
    /\ [](conv_data.is_running
           => \/ AliveWorkers # {}
              \/ \E o \in Observers : opc[o] = "start_spawn")
    /\ [][\A o \in Observers :
            (opc[o] = "start_check" /\ opc'[o] # "start_check" /\ AliveWorkers = {})
            => opc'[o] = "start_clear"]_vars

\* A worker has run and faulted without any Stop, every worker has exited,
\* and the next Start has passed its check.
C20_Witness ==
    /\ \E w \in Workers : Dead(w) /\ fault[w] # "none"
    /\ AliveWorkers = {}
    /\ ~stop_flag
    /\ ~conv_data.is_running
    /\ opc[1] = "start_clear"

====
